---- MODULE Spec2Model ----
(***************************************************************************)
(* State-machine model of r/src/materialize.c (nanoarrow R package): the   *)
(* recursive conversion of an Arrow array view into R vectors.             *)
(*                                                                         *)
(* A converter tree is an arena of nodes (node 1 is the root).  Node n     *)
(* owns the destination vector vec[n]; the columns of a data.frame         *)
(* destination are the vectors of the node's children.  The C recursion is *)
(* unfolded into an explicit call stack of frames, one per active call of  *)
(* nanoarrow_materialize().  Rf_error() is a longjmp out of the whole      *)
(* conversion and is modelled by the status "FATAL".                       *)
(***************************************************************************)
EXTENDS Integers, Sequences, FiniteSets, TLC

\* ------------------------------------------------------------------ bounds
MaxLen == 3          \* longest slice handed to the root converter
MaxOff == 1          \* largest slice offset handed to the root converter
Stride == 2          \* layout.child_size_elements of a FIXED_SIZE_LIST
Cap == MaxOff + MaxLen

\* ------------------------------------------------------------------ values
\* One element of an R vector.  t = "U": content left by the allocator,
\* "NA": the null/empty default of the vector's kind, "v": a value written by
\* a native materializer from physical element k of node n's array, "x": a
\* value produced by the external R converter, "list"/"df": a nested value.
Val(t, n, k, e) == [t |-> t, n |-> n, k |-> k, e |-> e]
U == Val("U", 0, 0, <<>>)
NA == Val("NA", 0, 0, <<>>)

NANOARROW_OK == "OK"

\* ------------------------------------------------------- converter trees
\* struct RConverter, static part: ptype_view.vector_type (vt),
\* array_view.storage_type (st), TYPEOF/shape of dst.vec_sexp (kind),
\* children, schema_view.extension_name present (ext),
\* array->dictionary != NULL (dict).
Node(vt, st, kind, ch) ==
  [vt |-> vt, st |-> st, kind |-> kind, children |-> ch,
   ext |-> FALSE, dict |-> FALSE]

IntCol == Node("INT", "INT32", "INT", <<>>)

Trees ==
  [ scalar    |-> << IntCol >>,
    unsup     |-> << Node("DBL", "STRING", "DBL", <<>>) >>,
    other     |-> << Node("OTHER", "INT32", "CPLX", <<>>) >>,
    struct    |-> << Node("DATA_FRAME", "STRUCT", "DF", <<2, 3>>), IntCol,
                     Node("CHR", "STRING", "STR", <<>>) >>,
    struct_fb |-> << Node("DATA_FRAME", "STRUCT", "DF", <<2, 3>>), IntCol,
                     Node("OTHER", "BINARY", "RAW", <<>>) >>,
    df_bad    |-> << Node("DATA_FRAME", "INT32", "DF", <<2>>), IntCol >>,
    dense     |-> << Node("DATA_FRAME", "DENSE_UNION", "DF", <<2, 3>>), IntCol,
                     Node("DBL", "DOUBLE", "DBL", <<>>) >>,
    dense_raw |-> << Node("DATA_FRAME", "DENSE_UNION", "DF", <<2, 3>>), IntCol,
                     Node("OTHER", "BINARY", "RAW", <<>>) >>,
    dense_cpl |-> << Node("DATA_FRAME", "DENSE_UNION", "DF", <<2, 3>>),
                     Node("CHR", "STRING", "STR", <<>>),
                     Node("OTHER", "INT32", "CPLX", <<>>) >>,
    dense_rec |-> << Node("DATA_FRAME", "DENSE_UNION", "DF", <<2, 3>>), IntCol,
                     Node("DATA_FRAME", "STRUCT", "DF", <<4>>), IntCol >>,
    dense_lst |-> << Node("DATA_FRAME", "DENSE_UNION", "DF", <<2, 3>>), IntCol,
                     Node("LIST_OF", "LIST", "VEC", <<4>>), IntCol >>,
    sparse    |-> << Node("DATA_FRAME", "SPARSE_UNION", "DF", <<2, 3>>), IntCol,
                     Node("DBL", "DOUBLE", "DBL", <<>>) >>,
    in_struct |-> << Node("DATA_FRAME", "STRUCT", "DF", <<2>>),
                     Node("DATA_FRAME", "SPARSE_UNION", "DF", <<3, 4>>), IntCol,
                     Node("OTHER", "BINARY", "RAW", <<>>) >>,
    list      |-> << Node("LIST_OF", "LIST", "VEC", <<2>>), IntCol >>,
    large     |-> << Node("LIST_OF", "LARGE_LIST", "VEC", <<2>>), IntCol >>,
    fixed     |-> << Node("LIST_OF", "FIXED_SIZE_LIST", "VEC", <<2>>), IntCol >>,
    list_na   |-> << Node("LIST_OF", "NA", "VEC", <<2>>), IntCol >>,
    list_bad  |-> << Node("LIST_OF", "INT32", "VEC", <<2>>), IntCol >>,
    list_rec  |-> << Node("LIST_OF", "LIST", "VEC", <<2>>),
                     Node("DATA_FRAME", "STRUCT", "DF", <<3>>), IntCol >>,
    list_fb   |-> << Node("LIST_OF", "LIST", "VEC", <<2>>),
                     Node("OTHER", "INT32", "CPLX", <<>>) >> ]

TreeNames == DOMAIN Trees
UnionTrees == {"dense", "dense_raw", "dense_cpl", "dense_rec", "dense_lst",
               "sparse", "in_struct"}
ListTrees == {"list", "large", "fixed", "list_rec", "list_fb", "dense_lst"}
\* Trees with a node that has no native materializer.
FallbackTrees == {"unsup", "other", "struct_fb", "df_bad", "dense_raw",
                  "dense_cpl", "in_struct", "list_bad", "list_fb"}

NullPats == {"none", "all", "even"}
UnionPats == {"alt", "zero", "one"}
ListPats == {"ragged", "unit"}
FbModes == {"ok", "len", "kind", "child", "stop"}
Flags == {"plain", "ext", "dict"}

\* The environment of one run: the tree, the contents of the source arrays,
\* the behaviour of the external R converter and the second chunk's slices.
\* Dimensions that a tree cannot observe are held at one value.
Environments(t, f) ==
  { [tree |-> t, flag |-> f, nulls |-> np, upat |-> up, lpat |-> lp.pat,
     fb |-> fb, arrOff |-> ao, finalizeOk |-> lp.fin] :
      np \in (IF f = "plain" THEN NullPats ELSE {"none"}),
      up \in (IF t \in UnionTrees THEN UnionPats ELSE {"alt"}),
      lp \in (IF t \in ListTrees
              THEN {[pat |-> "ragged", fin |-> TRUE], [pat |-> "unit", fin |-> TRUE],
                    [pat |-> "ragged", fin |-> FALSE]}
              ELSE {[pat |-> "ragged", fin |-> TRUE]}),
      fb \in (IF t \in FallbackTrees \/ f # "plain" \/ t \in ListTrees
              THEN FbModes ELSE {"ok"}),
      ao \in (IF f = "plain" THEN 0..1 ELSE {0}) }

RelevantEnvironment(c) ==
  /\ (c.arrOff = 1) => c.fb = "ok"
  /\ (c.fb # "ok") =>
        /\ c.tree \in FallbackTrees \/ c.flag # "plain" \/ ~c.finalizeOk
        /\ c.nulls = "none" /\ c.upat = "alt"

Chunks ==
  { [off2 |-> o2, len2 |-> l2, dstOff2 |-> d2] :
      o2 \in 0..MaxOff, l2 \in 0..MaxLen, d2 \in 0..MaxOff }

Configs ==
  UNION { {c \in Environments(t, f) : RelevantEnvironment(c)} :
            t \in TreeNames, f \in Flags }

VARIABLES cfg, chunk, conv, vec, stack, status, phase, results, alloc

vars == <<cfg, chunk, conv, vec, stack, status, phase, results, alloc>>

Root == 1
nodes == IF cfg.flag = "plain" THEN Trees[cfg.tree]
         ELSE [Trees[cfg.tree] EXCEPT
                 ![Root].ext = (cfg.flag = "ext"),
                 ![Root].dict = (cfg.flag = "dict")]
Ids == DOMAIN nodes
n_children(n) == Len(nodes[n].children)

\* ------------------------------------------------------------ array views
\* Validity of physical element k (every array of one run shares a pattern).
ValidityBit(k) ==
  CASE cfg.nulls = "none" -> TRUE
    [] cfg.nulls = "all" -> FALSE
    [] OTHER -> k % 2 = 1

\* ArrowArrayViewIsNull(array_view, i): element array->offset + i.
ArrowArrayViewIsNull(n, i) ==
  \/ nodes[n].st = "NA"
  \/ ~ValidityBit(cfg.arrOff + i)

\* Type id buffer of a union, by physical row.
TypeId(k) ==
  CASE cfg.upat = "alt" -> k % 2
    [] cfg.upat = "zero" -> 0
    [] OTHER -> 1

ArrowArrayViewUnionChildIndex(n, i) == TypeId(cfg.arrOff + i)

\* Dense union offsets buffer: the rank of row k among the rows of its type.
RECURSIVE DenseOffset(_, _)
DenseOffset(k, j) ==
  IF j >= k THEN 0
  ELSE (IF TypeId(j) = TypeId(k) THEN 1 ELSE 0) + DenseOffset(k, j + 1)

ArrowArrayViewUnionChildOffset(n, i) ==
  IF nodes[n].st = "DENSE_UNION" THEN DenseOffset(cfg.arrOff + i, 0)
  ELSE cfg.arrOff + i

\* List offsets buffer (int32 and int64 views hold the same numbers).
ElemLen(k) == IF cfg.lpat = "ragged" THEN <<2, 0, 3>>[(k % 3) + 1] ELSE 1
RECURSIVE offsets(_)
offsets(k) == IF k = 0 THEN 0 ELSE offsets(k - 1) + ElemLen(k - 1)
large_offsets(k) == offsets(k)

\* ---------------------------------------------------------- destinations
\* Rf_allocVector(): a VECSXP is filled with R_NilValue, other kinds hold
\* whatever the allocator left there.
AllocVector(kind, len) ==
  IF kind = "DF" THEN <<>>
  ELSE [p \in 1..len |-> IF kind = "VEC" THEN NA ELSE U]

nanoarrow_ptype_is_data_frame(n) == nodes[n].kind = "DF"

NewVecs == [n \in Ids |-> AllocVector(nodes[n].kind, Cap)]

\* Slices and cached ptype of a freshly built converter.
NewConv ==
  [n \in Ids |-> [srcOff |-> 0, srcLen |-> 0, dstOff |-> 0, dstLen |-> 0,
                  ptype |-> IF nodes[n].vt \in {"INT", "DBL", "CHR"}
                            THEN "Nil" ELSE nodes[n].kind]]

\* The value held by a destination vector (nanoarrow_converter_release_result
\* hands it to the parent list).
RECURSIVE Snapshot(_, _)
Snapshot(v, n) ==
  IF nanoarrow_ptype_is_data_frame(n)
  THEN Val("df", n, 0, [j \in 1..n_children(n) |->
                          Snapshot(v, nodes[n].children[j])])
  ELSE Val("vec", n, Len(v[n]), v[n])

\* Destination vectors reachable from node n's vector as (nested) columns.
RECURSIVE Columns(_)
Columns(n) ==
  IF nanoarrow_ptype_is_data_frame(n)
  THEN {n} \cup UNION {Columns(nodes[n].children[j]) : j \in 1..n_children(n)}
  ELSE {n}

SetRange(data, first, len, val) ==
  [p \in DOMAIN data |->
     IF p - 1 >= first /\ p - 1 < first + len THEN val ELSE data[p]]

\* fill_vec_with_nulls(x, offset, len) on the vectors v.
RECURSIVE fill_vec_with_nulls(_, _, _, _), FillColumns(_, _, _, _, _)
FillColumns(v, x, j, offset, len) ==
  IF j > n_children(x) THEN v
  ELSE FillColumns(fill_vec_with_nulls(v, nodes[x].children[j], offset, len),
                   x, j + 1, offset, len)

\* Mutant: the null pre-fill stops one element short of the slice.
fill_vec_with_nulls_short(v, x, offset, len) ==
  IF nanoarrow_ptype_is_data_frame(x) THEN FillColumns(v, x, 1, offset, len)
  ELSE IF nodes[x].kind = "RAW"
       THEN [v EXCEPT ![x] = SetRange(@, 0, len - 1, NA)]
       ELSE [v EXCEPT ![x] = SetRange(@, offset, len - 1, NA)]

fill_vec_with_nulls(v, x, offset, len) ==
  IF nanoarrow_ptype_is_data_frame(x) THEN FillColumns(v, x, 1, offset, len)
  ELSE IF nodes[x].kind = "RAW"
       THEN [v EXCEPT ![x] = SetRange(@, 0, len, NA)]   \* memset(RAW(x), ...)
       ELSE [v EXCEPT ![x] = SetRange(@, offset, len, NA)]

\* ------------------------------------------------- the external converter
\* An R value returned by convert_fallback_other(): kind is TYPEOF (or "DF"
\* for a record-style vctr), cols its columns, data its elements.
RECURSIVE ConvertArray(_, _, _, _)
ConvertArray(n, offset, length, kind) ==
  [kind |-> kind,
   rows |-> length,
   cols |-> IF kind = "DF"
            THEN [j \in 1..n_children(n) |->
                    ConvertArray(nodes[n].children[j], offset, length,
                                 nodes[nodes[n].children[j]].kind)]
            ELSE <<>>,
   data |-> IF kind = "DF" THEN <<>>
            ELSE [i \in 1..length |->
                    IF ValidityBit(offset + i - 1)
                    THEN Val("x", n, offset + i - 1, <<>>) ELSE NA]]

OtherLength(length) == IF length > 0 THEN length - 1 ELSE 1
OtherKind(kind) ==
  CASE kind = "DF" -> "VEC"
    [] kind = "RAW" -> "DF"
    [] kind = "INT" -> "DBL"
    [] OTHER -> "INT"

\* The value the host returns for (array, offset, length, ptype) under the
\* run's behaviour cfg.fb ("stop" is handled by the caller: R signals).
convert_fallback_other(n, offset, length, ptype) ==
  LET kind == IF ptype = "Nil" THEN nodes[n].kind ELSE ptype
      good == ConvertArray(n, offset, length, kind)
      short == ConvertArray(n, offset, OtherLength(length), kind)
  IN CASE cfg.fb = "len" -> short
       [] cfg.fb = "kind" -> ConvertArray(n, offset, length, OtherKind(kind))
       [] cfg.fb = "child" ->
            IF kind = "DF" /\ n_children(n) > 0
            THEN [good EXCEPT !.cols[n_children(n)] = short.cols[n_children(n)]]
            ELSE short
       [] OTHER -> good

Rf_xlength(x) == IF x.kind = "DF" THEN Len(x.cols) ELSE Len(x.data)
nanoarrow_data_frame_size(x) ==
  IF Rf_xlength(x) > 0 THEN Rf_xlength(x.cols[1]) ELSE x.rows

\* copy_vec_into(x, dst, offset, len): the vectors afterwards and whether
\* Rf_error() was raised (the writes made before it stay).
RECURSIVE copy_vec_into(_, _, _, _, _), CopyColumns(_, _, _, _, _, _)
CopyColumns(v, x, dst, j, offset, len) ==
  IF j > Len(x.cols) THEN [v |-> v, err |-> FALSE]
  ELSE LET r == copy_vec_into(v, x.cols[j], nodes[dst].children[j], offset, len)
       IN IF r.err THEN r ELSE CopyColumns(r.v, x, dst, j + 1, offset, len)

\* Mutant: a scalar result is copied before its length is compared.
copy_vec_into_unchecked(v, x, dst, offset, len) ==
  IF nanoarrow_ptype_is_data_frame(dst)
  THEN IF x.kind # "DF" THEN [v |-> v, err |-> TRUE]
       ELSE IF len # nanoarrow_data_frame_size(x) THEN [v |-> v, err |-> TRUE]
       ELSE IF Len(x.cols) # n_children(dst) THEN [v |-> v, err |-> TRUE]
       ELSE CopyColumns(v, x, dst, 1, offset, len)
  ELSE IF x.kind = "DF" THEN [v |-> v, err |-> TRUE]
  ELSE IF nodes[dst].kind # x.kind THEN [v |-> v, err |-> TRUE]
  ELSE [v |-> [v EXCEPT ![dst] =
                 [p \in DOMAIN @ |->
                    IF p - 1 >= offset /\ p - 1 < offset + len
                       /\ p - offset \in DOMAIN x.data
                    THEN x.data[p - offset] ELSE @[p]]],
        err |-> Len(x.data) # len]

copy_vec_into(v, x, dst, offset, len) ==
  IF nanoarrow_ptype_is_data_frame(dst)
  THEN IF x.kind # "DF" THEN [v |-> v, err |-> TRUE]
       ELSE IF len # nanoarrow_data_frame_size(x) THEN [v |-> v, err |-> TRUE]
       ELSE IF Len(x.cols) # n_children(dst) THEN [v |-> v, err |-> TRUE]
       ELSE CopyColumns(v, x, dst, 1, offset, len)
  ELSE IF x.kind = "DF" THEN [v |-> v, err |-> TRUE]
  ELSE IF nodes[dst].kind # x.kind THEN [v |-> v, err |-> TRUE]
  ELSE IF Len(x.data) # len THEN [v |-> v, err |-> TRUE]
  ELSE [v |-> [v EXCEPT ![dst] =
                 [p \in DOMAIN @ |->
                    IF p - 1 >= offset /\ p - 1 < offset + len
                    THEN x.data[p - offset] ELSE @[p]]],
        err |-> FALSE]

nanoarrow_alloc_type(vector_type) ==
  CASE vector_type = "LGL" -> "LGL"
    [] vector_type = "INT" -> "INT"
    [] vector_type = "DBL" -> "DBL"
    [] vector_type = "CHR" -> "STR"
    [] OTHER -> "Nil"

\* nanoarrow_materialize_other(converter): the converter's cached ptype, the
\* vectors afterwards, and whether the call ended in Rf_error().
nanoarrow_materialize_other(c, v, n) ==
  LET ptype == IF c[n].ptype = "Nil" THEN nanoarrow_alloc_type(nodes[n].vt)
               ELSE c[n].ptype
      result_src == convert_fallback_other(n, cfg.arrOff + c[n].srcOff,
                                           c[n].srcLen, ptype)
      copied == copy_vec_into(v, result_src, n, c[n].dstOff, c[n].dstLen)
  IN [conv |-> [c EXCEPT ![n].ptype = ptype],
      v |-> IF cfg.fb = "stop" THEN v ELSE copied.v,
      err |-> cfg.fb = "stop" \/ copied.err,
      status |-> NANOARROW_OK]

\* ----------------------------------------------------- scalar materializers
Supported(vector_type, storage_type) ==
  \/ vector_type = "INT" /\ storage_type \in {"INT32", "NA"}
  \/ vector_type = "DBL" /\ storage_type \in {"DOUBLE", "INT32", "NA"}
  \/ vector_type = "CHR" /\ storage_type \in {"STRING", "NA"}

\* nanoarrow_materialize_int/dbl/chr: element i of the source slice goes to
\* element i of the destination slice; a null gives the kind's sentinel.
MaterializeScalar(c, v, n) ==
  IF ~Supported(nodes[n].vt, nodes[n].st) THEN [v |-> v, res |-> "ENOTSUP"]
  ELSE [v |-> [v EXCEPT ![n] =
                 [p \in DOMAIN @ |->
                    IF p - 1 >= c[n].dstOff /\ p - 1 < c[n].dstOff + c[n].dstLen
                    THEN LET i == p - 1 - c[n].dstOff
                         IN IF ArrowArrayViewIsNull(n, c[n].srcOff + i)
                            THEN NA
                            ELSE Val("v", n, cfg.arrOff + c[n].srcOff + i, <<>>)
                    ELSE @[p]]],
        res |-> NANOARROW_OK]

\* ------------------------------------------------------------- allocator
MaxLevels == 2       \* most levels of a factor ptype

\* A ptype SEXP: cls is its class ("none": Rf_isObject() is false), type its
\* TYPEOF, levels the length of its levels attribute, cols its elements when
\* it is a list; a list with a class has names.
Ptype(cls, type, levels, cols) ==
  [cls |-> cls, type |-> type, levels |-> levels, cols |-> cols]

LeafPtypes ==
  {Ptype("none", t, 0, <<>>) : t \in {"INTSXP", "REALSXP", "STRSXP", "VECSXP"}}
    \cup {Ptype("factor", "INTSXP", l, <<>>) : l \in 0..MaxLevels}
    \cup {Ptype("Date", "REALSXP", 0, <<>>)}

FactorPtypes == {p \in LeafPtypes : p.cls = "factor"}

\* data.frame and record-style vctr ptypes over the columns cs.
RecordPtypes(cs) ==
  {Ptype("data.frame", "VECSXP", 0, <<>>)}
    \cup {Ptype(c, "VECSXP", 0, <<a>>) : c \in {"data.frame", "vctr"}, a \in cs}
    \cup {Ptype(c, "VECSXP", 0, <<a, b>>) :
            c \in {"data.frame", "vctr"}, a \in cs, b \in cs}

Ptypes ==
  LeafPtypes \cup RecordPtypes(LeafPtypes)
    \cup RecordPtypes({Ptype("data.frame", "VECSXP", 0, <<f>>) : f \in FactorPtypes})

\* nanoarrow_ptype_is_data_frame(ptype) on a ptype SEXP.
ptype_is_data_frame(ptype) ==
  /\ ptype.cls # "none" /\ ptype.type = "VECSXP"
  /\ (ptype.cls = "data.frame" \/ Len(ptype.cols) > 0)

\* An allocated vector: its TYPEOF, length, the class and levels copied by
\* Rf_copyMostAttrib(), its columns and its row.names (-1: none).
NoValue == [type |-> "NILSXP", len |-> 0, cls |-> "none", levels |-> 0,
            cols |-> <<>>, rownames |-> -1]

\* Mutant: the check of the factor levels is missing.
RECURSIVE nanoarrow_materialize_realloc(_, _)
nanoarrow_materialize_realloc_NoLevelsCheck(ptype, len) ==
  IF ptype.cls = "none"
  THEN [err |-> FALSE, value |-> [NoValue EXCEPT !.type = ptype.type, !.len = len]]
  ELSE IF ptype_is_data_frame(ptype)
  THEN LET kids == [j \in 1..Len(ptype.cols) |->
                      nanoarrow_materialize_realloc(ptype.cols[j], len)]
       IN IF \E j \in 1..Len(kids) : kids[j].err
          THEN [err |-> TRUE, value |-> NoValue]
          ELSE [err |-> FALSE,
                value |-> [type |-> "VECSXP", len |-> Len(kids), cls |-> ptype.cls,
                           levels |-> ptype.levels,
                           cols |-> [j \in 1..Len(kids) |-> kids[j].value],
                           rownames |-> IF ptype.cls = "data.frame" THEN len ELSE -1]]
  ELSE [err |-> FALSE,
        value |-> [NoValue EXCEPT !.type = ptype.type, !.len = len,
                                  !.cls = ptype.cls, !.levels = ptype.levels]]

\* nanoarrow_materialize_realloc(ptype, len): whether Rf_error() was raised,
\* and the vector returned otherwise.
nanoarrow_materialize_realloc(ptype, len) ==
  IF ptype.cls = "none"
  THEN [err |-> FALSE, value |-> [NoValue EXCEPT !.type = ptype.type, !.len = len]]
  ELSE IF ptype.cls = "factor" /\ ptype.levels = 0
  THEN [err |-> TRUE, value |-> NoValue]
  ELSE IF ptype_is_data_frame(ptype)
  THEN LET kids == [j \in 1..Len(ptype.cols) |->
                      nanoarrow_materialize_realloc(ptype.cols[j], len)]
       IN IF \E j \in 1..Len(kids) : kids[j].err
          THEN [err |-> TRUE, value |-> NoValue]
          ELSE [err |-> FALSE,
                value |-> [type |-> "VECSXP", len |-> Len(kids), cls |-> ptype.cls,
                           levels |-> ptype.levels,
                           cols |-> [j \in 1..Len(kids) |-> kids[j].value],
                           rownames |-> IF ptype.cls = "data.frame" THEN len ELSE -1]]
  ELSE [err |-> FALSE,
        value |-> [NoValue EXCEPT !.type = ptype.type, !.len = len,
                                  !.cls = ptype.cls, !.levels = ptype.levels]]

\* No allocation call in progress.
NoAlloc == [ptype |-> Ptype("none", "NILSXP", 0, <<>>), len |-> 0,
            state |-> "idle", err |-> FALSE, value |-> NoValue]

\* ------------------------------------------------------------- call stack
\* One frame per active nanoarrow_materialize(converter): pc is the position
\* in the call, i the loop index of a nested materializer, res the status
\* returned by nanoarrow_materialize_base() ("none" before it returned),
\* others the number of times the call ran nanoarrow_materialize_other().
\* res is the result of nanoarrow_materialize_base(), ret what the call of
\* nanoarrow_materialize_other() at line 499 returned.
Frame(n) == [node |-> n, pc |-> "base", i |-> 0, res |-> "none", others |-> 0,
             ret |-> "none"]

Depth == Len(stack)
Top == stack[Depth]
SetTop(f) == [stack EXCEPT ![Depth] = f]
Done(f, res) == [f EXCEPT !.pc = "check", !.res = res]

Init ==
  /\ cfg \in Configs
  /\ chunk \in Chunks
  /\ conv = NewConv
  /\ vec = NewVecs
  /\ stack = <<>>
  /\ status = "idle"
  /\ phase = 0
  /\ results = <<>>
  /\ alloc = NoAlloc

\* Rf_error(): the conversion is abandoned with whatever was written so far.
Fatal(v) ==
  /\ stack' = <<>>
  /\ status' = "FATAL"
  /\ vec' = v
  /\ results' = Append(results, [status |-> "FATAL", value |-> Snapshot(v, Root)])

\* The caller binds the root to a chunk and a fresh destination and calls
\* nanoarrow_materialize(): chunk 1 on the new tree, chunk 2 on the same tree,
\* then chunk 2 again on a tree built anew.
StartChunk ==
  /\ stack = <<>>
  /\ phase < 3
  /\ status # "running"
  /\ LET first == phase = 0
         off == IF first THEN MaxOff ELSE chunk.off2
         len == IF first THEN MaxLen ELSE chunk.len2
         dstOff == IF first THEN 0 ELSE chunk.dstOff2
         tree == IF phase = 2 THEN NewConv ELSE conv
     IN /\ conv' = [tree EXCEPT ![Root].srcOff = off, ![Root].srcLen = len,
                                 ![Root].dstOff = dstOff, ![Root].dstLen = len]
        /\ vec' = [n \in Ids |-> IF n \in Columns(Root) \/ phase = 2
                                  THEN NewVecs[n] ELSE vec[n]]
  /\ stack' = <<Frame(Root)>>
  /\ status' = "running"
  /\ phase' = phase + 1
  /\ UNCHANGED <<alloc, cfg, chunk, results>>

IsOther(n) ==
  \/ nodes[n].ext
  \/ nodes[n].vt \notin {"INT", "DBL", "CHR", "LIST_OF", "DATA_FRAME"}

\* nanoarrow_materialize_base(): an extension type or a vector type without
\* a native materializer goes to nanoarrow_materialize_other().
BaseOther ==
  /\ stack # <<>> /\ Top.pc = "base" /\ IsOther(Top.node)
  /\ LET r == nanoarrow_materialize_other(conv, vec, Top.node)
     IN /\ conv' = r.conv
        /\ IF r.err THEN Fatal(r.v)
           ELSE /\ vec' = r.v
                /\ stack' = SetTop([Done(Top, r.status) EXCEPT !.others = @ + 1])
                /\ UNCHANGED <<status, results>>
  /\ UNCHANGED <<alloc, cfg, chunk, phase>>

\* nanoarrow_materialize_base(): a scalar vector type.
BaseScalar ==
  /\ stack # <<>> /\ Top.pc = "base" /\ ~IsOther(Top.node)
  /\ nodes[Top.node].vt \in {"INT", "DBL", "CHR"}
  /\ LET r == MaterializeScalar(conv, vec, Top.node)
     IN /\ vec' = r.v
        /\ stack' = SetTop(Done(Top, r.res))
  /\ UNCHANGED <<alloc, cfg, chunk, conv, status, phase, results>>

\* nanoarrow_materialize_list_of() up to its first loop iteration.
BaseListOf ==
  /\ stack # <<>> /\ Top.pc = "base" /\ ~IsOther(Top.node)
  /\ nodes[Top.node].vt = "LIST_OF"
  /\ LET n == Top.node
     IN stack' = SetTop(
          IF nodes[n].dict THEN Done(Top, "EINVAL")
          ELSE IF nodes[n].st = "NA" THEN Done(Top, NANOARROW_OK)
          ELSE IF nodes[n].st \in {"LIST", "LARGE_LIST", "FIXED_SIZE_LIST"}
               THEN [Top EXCEPT !.pc = "list", !.i = 0]
          ELSE Done(Top, "EINVAL"))
  /\ UNCHANGED <<alloc, cfg, chunk, conv, vec, status, phase, results>>

\* Mutant: the dictionary check of nanoarrow_materialize_data_frame() is
\* missing.
BaseDataFrame_NoDictionaryCheck ==
  /\ stack # <<>> /\ Top.pc = "base" /\ ~IsOther(Top.node)
  /\ nodes[Top.node].vt = "DATA_FRAME"
  /\ LET n == Top.node
         isUnion == nodes[n].st \in {"DENSE_UNION", "SPARSE_UNION"}
     IN /\ stack' = SetTop(
             IF nodes[n].st = "STRUCT" THEN [Top EXCEPT !.pc = "struct", !.i = 0]
             ELSE IF isUnion THEN [Top EXCEPT !.pc = "union", !.i = 0]
             ELSE Done(Top, "ENOTSUP"))
        /\ vec' = IF isUnion
                  THEN fill_vec_with_nulls(vec, n, conv[n].dstOff, conv[n].dstLen)
                  ELSE vec
  /\ UNCHANGED <<alloc, cfg, chunk, conv, status, phase, results>>

\* nanoarrow_materialize_data_frame() up to its switch; a union pre-fills
\* its destination slice with nulls before its loop.
BaseDataFrame ==
  /\ stack # <<>> /\ Top.pc = "base" /\ ~IsOther(Top.node)
  /\ nodes[Top.node].vt = "DATA_FRAME"
  /\ LET n == Top.node
         isUnion == nodes[n].st \in {"DENSE_UNION", "SPARSE_UNION"}
     IN /\ stack' = SetTop(
             IF nodes[n].dict THEN Done(Top, "EINVAL")
             ELSE IF nodes[n].st = "STRUCT" THEN [Top EXCEPT !.pc = "struct", !.i = 0]
             ELSE IF isUnion THEN [Top EXCEPT !.pc = "union", !.i = 0]
             ELSE Done(Top, "ENOTSUP"))
        /\ vec' = IF ~nodes[n].dict /\ isUnion
                  THEN fill_vec_with_nulls(vec, n, conv[n].dstOff, conv[n].dstLen)
                  ELSE vec
  /\ UNCHANGED <<alloc, cfg, chunk, conv, status, phase, results>>

\* Mutant: a struct binds a child only while the child is still unbound.
StructStep_BindOnce ==
  /\ stack # <<>> /\ Top.pc = "struct"
  /\ LET n == Top.node
     IN IF Top.i < n_children(n)
        THEN LET child == nodes[n].children[Top.i + 1]
             IN /\ conv' = IF conv[child].srcLen # 0 THEN conv
                           ELSE [conv EXCEPT ![child].srcOff = conv[n].srcOff,
                                             ![child].srcLen = conv[n].srcLen,
                                             ![child].dstOff = conv[n].dstOff,
                                             ![child].dstLen = conv[n].dstLen]
                /\ stack' = Append(stack, Frame(child))
        ELSE /\ stack' = SetTop(Done(Top, NANOARROW_OK))
             /\ UNCHANGED conv
  /\ UNCHANGED <<alloc, cfg, chunk, vec, status, phase, results>>

\* One iteration of the STRUCT loop: bind child i to the parent's slices and
\* call nanoarrow_materialize() on it; after the last child return OK.
StructStep ==
  /\ stack # <<>> /\ Top.pc = "struct"
  /\ LET n == Top.node
     IN IF Top.i < n_children(n)
        THEN LET child == nodes[n].children[Top.i + 1]
             IN /\ conv' = [conv EXCEPT ![child].srcOff = conv[n].srcOff,
                                         ![child].srcLen = conv[n].srcLen,
                                         ![child].dstOff = conv[n].dstOff,
                                         ![child].dstLen = conv[n].dstLen]
                /\ stack' = Append(stack, Frame(child))
        ELSE /\ stack' = SetTop(Done(Top, NANOARROW_OK))
             /\ UNCHANGED conv
  /\ UNCHANGED <<alloc, cfg, chunk, vec, status, phase, results>>

\* Mutants of the union loop: the child keeps the union's source length;
\* the child's destination offset is the bare row index.
UnionStepWith(srcLen, dstBase) ==
  /\ stack # <<>> /\ Top.pc = "union"
  /\ LET n == Top.node
     IN IF Top.i < conv[n].dstLen
        THEN LET child_index == ArrowArrayViewUnionChildIndex(n, conv[n].srcOff + Top.i)
                 child_offset == ArrowArrayViewUnionChildOffset(n, conv[n].srcOff + Top.i)
                 child == nodes[n].children[child_index + 1]
             IN /\ conv' = [conv EXCEPT ![child].srcOff = child_offset,
                                         ![child].srcLen = srcLen,
                                         ![child].dstOff = dstBase + Top.i,
                                         ![child].dstLen = 1]
                /\ stack' = Append(stack, Frame(child))
        ELSE /\ stack' = SetTop(Done(Top, NANOARROW_OK))
             /\ UNCHANGED conv
  /\ UNCHANGED <<alloc, cfg, chunk, vec, status, phase, results>>

UnionStep_SourceLength == UnionStepWith(conv[Top.node].srcLen, conv[Top.node].dstOff)
UnionStep_RowIndex == UnionStepWith(1, 0)

\* One iteration of the union loop: row i goes to the child its type id
\* selects, as a slice of one element.
UnionStep ==
  /\ stack # <<>> /\ Top.pc = "union"
  /\ LET n == Top.node
     IN IF Top.i < conv[n].dstLen
        THEN LET child_index == ArrowArrayViewUnionChildIndex(n, conv[n].srcOff + Top.i)
                 child_offset == ArrowArrayViewUnionChildOffset(n, conv[n].srcOff + Top.i)
                 child == nodes[n].children[child_index + 1]
             IN /\ conv' = [conv EXCEPT ![child].srcOff = child_offset,
                                         ![child].srcLen = 1,
                                         ![child].dstOff = conv[n].dstOff + Top.i,
                                         ![child].dstLen = 1]
                /\ stack' = Append(stack, Frame(child))
        ELSE /\ stack' = SetTop(Done(Top, NANOARROW_OK))
             /\ UNCHANGED conv
  /\ UNCHANGED <<alloc, cfg, chunk, vec, status, phase, results>>

\* Mutant: the list offsets are read without the array's own offset.
ListElementRange_NoArrayOffset(n, i) ==
  LET raw_src_offset == conv[n].srcOff
  IN IF nodes[n].st \in {"LIST", "LARGE_LIST"}
     THEN [offset |-> offsets(raw_src_offset + i),
           length |-> offsets(raw_src_offset + i + 1) - offsets(raw_src_offset + i)]
     ELSE [offset |-> (raw_src_offset + i) * Stride, length |-> Stride]

\* The (offset, length) of list row i in the element array.
ListElementRange(n, i) ==
  LET raw_src_offset == cfg.arrOff + conv[n].srcOff
  IN CASE nodes[n].st = "LIST" ->
            [offset |-> offsets(raw_src_offset + i),
             length |-> offsets(raw_src_offset + i + 1) - offsets(raw_src_offset + i)]
       [] nodes[n].st = "LARGE_LIST" ->
            [offset |-> large_offsets(raw_src_offset + i),
             length |-> large_offsets(raw_src_offset + i + 1)
                          - large_offsets(raw_src_offset + i)]
       [] OTHER ->
            [offset |-> (raw_src_offset + i) * Stride, length |-> Stride]

\* One iteration of a list loop: a null row is skipped; otherwise
\* materialize_list_element() reserves a new vector for the element
\* converter, binds its slices and calls nanoarrow_materialize() on it.
ListStep ==
  /\ stack # <<>> /\ Top.pc = "list"
  /\ LET n == Top.node
         child == nodes[n].children[1]
         r == ListElementRange(n, Top.i)
     IN IF Top.i >= conv[n].dstLen
        THEN /\ stack' = SetTop(Done(Top, NANOARROW_OK))
             /\ UNCHANGED <<conv, vec>>
        ELSE IF ArrowArrayViewIsNull(n, conv[n].srcOff + Top.i)
        THEN /\ stack' = SetTop([Top EXCEPT !.i = @ + 1])
             /\ UNCHANGED <<conv, vec>>
        ELSE /\ vec' = [m \in Ids |-> IF m \in Columns(child)
                                       THEN AllocVector(nodes[m].kind, r.length)
                                       ELSE vec[m]]
             /\ conv' = [conv EXCEPT ![child].srcOff = r.offset,
                                      ![child].srcLen = r.length,
                                      ![child].dstOff = 0,
                                      ![child].dstLen = r.length]
             /\ stack' = Append(stack, Frame(child))
  /\ UNCHANGED <<alloc, cfg, chunk, status, phase, results>>

\* Mutant: a failure of the bridge is answered by another attempt.
Fallback_Retry ==
  /\ stack # <<>> /\ Top.pc = "check" /\ Top.res # NANOARROW_OK
  /\ LET r == nanoarrow_materialize_other(conv, vec, Top.node)
     IN /\ conv' = r.conv
        /\ vec' = r.v
        /\ stack' = SetTop([Top EXCEPT !.pc = IF r.err THEN "check" ELSE "ret",
                                        !.ret = r.status, !.others = @ + 1])
        /\ UNCHANGED <<status, results>>
  /\ UNCHANGED <<alloc, cfg, chunk, phase>>

\* Mutant: the status of the base attempt is handed to the caller as it is.
Fallback_PassStatus ==
  /\ stack # <<>> /\ Top.pc = "check" /\ Top.res # NANOARROW_OK
  /\ stack' = SetTop([Top EXCEPT !.pc = "ret", !.ret = Top.res])
  /\ UNCHANGED <<conv, vec, status, results>>
  /\ UNCHANGED <<alloc, cfg, chunk, phase>>

\* nanoarrow_materialize(): the base attempt did not return NANOARROW_OK, so
\* the call is handed to nanoarrow_materialize_other().
Fallback ==
  /\ stack # <<>> /\ Top.pc = "check" /\ Top.res # NANOARROW_OK
  /\ LET r == nanoarrow_materialize_other(conv, vec, Top.node)
     IN /\ conv' = r.conv
        /\ IF r.err THEN Fatal(r.v)
           ELSE /\ vec' = r.v
                /\ stack' = SetTop([Top EXCEPT !.pc = "ret", !.ret = r.status,
                                                !.others = @ + 1])
                /\ UNCHANGED <<status, results>>
  /\ UNCHANGED <<alloc, cfg, chunk, phase>>

Returning == stack # <<>> /\ (Top.pc = "ret" \/ (Top.pc = "check" /\ Top.res = NANOARROW_OK))

\* What nanoarrow_materialize() returns from a frame that is Returning: the
\* result of nanoarrow_materialize_other() on line 499, NANOARROW_OK on
\* line 501.
ReturnValue(f) == IF f.pc = "ret" THEN f.ret ELSE NANOARROW_OK

\* nanoarrow_converter_materialize_n(): the number of elements converted,
\* all of them when nanoarrow_materialize() gave NANOARROW_OK.
materialize_n(rv, n) == IF rv = NANOARROW_OK THEN n ELSE 0

\* materialize_list_element() after the element converter has run.
ListElementStatus(rv, length) ==
  IF materialize_n(rv, length) # length THEN "EINVAL"
  ELSE IF ~cfg.finalizeOk THEN "EINVAL"
  ELSE NANOARROW_OK

\* nanoarrow_materialize() returns into the loop of the parent, which leaves
\* with a status that is not NANOARROW_OK (NANOARROW_RETURN_NOT_OK): a struct
\* or union otherwise goes on with its next child or row; a list finalizes
\* the element and stores the released result at its row.
ReturnToParent ==
  /\ Returning /\ Depth > 1
  /\ LET parent == stack[Depth - 1]
         n == parent.node
         rest == SubSeq(stack, 1, Depth - 2)
         rv == IF parent.pc = "list"
               THEN ListElementStatus(ReturnValue(Top), conv[Top.node].dstLen)
               ELSE ReturnValue(Top)
     IN IF rv # NANOARROW_OK
        THEN /\ stack' = Append(rest, Done(parent, rv))
             /\ UNCHANGED vec
        ELSE /\ stack' = Append(rest, [parent EXCEPT !.i = @ + 1])
             /\ vec' = IF parent.pc = "list"
                       THEN [vec EXCEPT ![n][conv[n].dstOff + parent.i + 1] =
                               Snapshot(vec, Top.node)]
                       ELSE vec
  /\ UNCHANGED <<alloc, cfg, chunk, conv, status, phase, results>>

\* The root call returns to the caller.
ReturnRoot ==
  /\ Returning /\ Depth = 1
  /\ stack' = <<>>
  /\ status' = ReturnValue(Top)
  /\ results' = Append(results, [status |-> ReturnValue(Top),
                                  value |-> Snapshot(vec, Root)])
  /\ UNCHANGED <<alloc, cfg, chunk, conv, vec, phase>>

Next ==
  \/ StartChunk
  \/ BaseOther
  \/ BaseScalar
  \/ BaseListOf
  \/ BaseDataFrame
  \/ StructStep
  \/ UnionStep
  \/ ListStep
  \/ Fallback
  \/ ReturnToParent
  \/ ReturnRoot

Spec == Init /\ [][Next]_vars

\* ------------------------------------------- the allocator on its own
\* A caller asks for a destination of a given ptype and length.
InitAlloc ==
  /\ cfg = [tree |-> "scalar", flag |-> "plain", nulls |-> "none", upat |-> "alt",
            lpat |-> "ragged", fb |-> "ok", arrOff |-> 0, finalizeOk |-> TRUE]
  /\ chunk = [off2 |-> 0, len2 |-> 0, dstOff2 |-> 0]
  /\ conv = NewConv
  /\ vec = NewVecs
  /\ stack = <<>>
  /\ status = "idle"
  /\ phase = 0
  /\ results = <<>>
  /\ alloc \in {[NoAlloc EXCEPT !.ptype = p, !.len = l, !.state = "call"] :
                   p \in Ptypes, l \in 0..MaxLen}

Realloc ==
  /\ alloc.state = "call"
  /\ LET r == nanoarrow_materialize_realloc(alloc.ptype, alloc.len)
     IN alloc' = [alloc EXCEPT !.state = "done", !.err = r.err, !.value = r.value]
  /\ UNCHANGED <<cfg, chunk, conv, vec, stack, status, phase, results>>

NextAlloc == Realloc

SpecAlloc == InitAlloc /\ [][NextAlloc]_vars

\* ===================================================================== C1
ReturnedFrom(f) == f.pc = "ret" \/ (f.pc = "check" /\ f.res = NANOARROW_OK)

\* C1 (as stated): in a call on a node without an extension type the bridge
\* runs only after the native attempt reported "unsupported" (ENOTSUP), and
\* at most once.
C1_FallbackOnlyWhenUnsupported ==
  [][(Fallback /\ ~nodes[Top.node].ext) =>
        (Top.res = "ENOTSUP" /\ Top.others = 0)]_vars

\* C1 (amended): in a call on a node without an extension type the native
\* attempt runs first; the bridge runs exactly when that attempt returned a
\* status other than OK (ENOTSUP or EINVAL alike), at most once per call, and
\* a failure of the bridge ends the conversion without another attempt.
C1_FallbackOnAnyFailure ==
  [][(stack # <<>> /\ ~nodes[Top.node].ext) =>
       /\ Fallback => (Top.res \in {"ENOTSUP", "EINVAL"} /\ Top.others = 0)
       /\ (Top.pc = "check" /\ Top.res # NANOARROW_OK) =>
             \/ status' = "FATAL" /\ stack' = <<>>
             \/ /\ stack' = SetTop([Top EXCEPT !.pc = "ret", !.others = 1,
                                                !.ret = NANOARROW_OK])
                /\ status' = status
       /\ (Top.pc = "ret") => (Top.others = 1 /\ Top.res # NANOARROW_OK
                                /\ ~Fallback /\ Depth' < Depth)]_vars

C1_Witness ==
  /\ stack # <<>> /\ Top.pc = "ret" /\ Top.res = "EINVAL" /\ Top.others = 1
  /\ ~nodes[Top.node].ext

\* ===================================================================== C2
DictionaryNested(n) ==
  nodes[n].dict /\ ~nodes[n].ext /\ nodes[n].vt \in {"DATA_FRAME", "LIST_OF"}

HoldsExternal(v) == \E m \in Ids : \E p \in DOMAIN v[m] : v[m][p].t = "x"

\* C2 (as stated): a call on a dictionary-encoded node with a record, union
\* or list target ends with EINVAL: it never returns OK, never runs the
\* bridge and never has an external result copied into the destination.
C2_DictionaryRejected ==
  \A d \in 1..Depth :
     DictionaryNested(stack[d].node) =>
       /\ ~ReturnedFrom(stack[d])
       /\ stack[d].others = 0
       /\ ~HoldsExternal(vec)

\* C2 (amended): on such a node the native materializer returns EINVAL
\* before it binds or materializes any child converter and before it writes
\* anything; the dispatcher then runs the bridge once, so the call ends with
\* the bridge's outcome (OK with the external result copied into the slice,
\* or a fatal error) and never with EINVAL.
C2_DictionaryGoesToBridge ==
  \A d \in 1..Depth :
     LET f == stack[d]
     IN DictionaryNested(f.node) =>
          /\ d = Depth
          /\ f.pc \in {"base", "check", "ret"}
          /\ f.pc = "check" => (f.res = "EINVAL" /\ f.others = 0)
          /\ f.pc = "ret" => f.others = 1
          /\ f.pc # "ret" => vec = NewVecs
          /\ \A j \in 1..n_children(f.node) :
                LET child == nodes[f.node].children[j]
                IN conv[child] = NewConv[child]

C2_Witness ==
  /\ stack # <<>> /\ DictionaryNested(Top.node) /\ Top.pc = "ret"
  /\ HoldsExternal(vec)

\* ===================================================================== C3
Window(n) == (conv[n].dstOff + 1)..(conv[n].dstOff + conv[n].dstLen)

\* Element p of a leaf column of a record root (or of a scalar root) holds
\* the value of source row i = p - 1 - dst.offset, or the null default.
RowValue(m, p) ==
  LET k == cfg.arrOff + conv[Root].srcOff + (p - 1 - conv[Root].dstOff)
      val == vec[m][p]
  IN \/ val.t = "NA" /\ ~ValidityBit(k)
     \/ val.t \in {"v", "x"} /\ val.n = m /\ val.k = k /\ ValidityBit(k)

StructOnly == cfg.tree \in {"scalar", "unsup", "other", "struct", "struct_fb", "df_bad"}

\* C3: when the root call returns OK every position of the destination
\* window, in every column, has been given a value, and in a scalar or
\* record destination it is the value of the corresponding source row.
C3_NoPartialSuccess ==
  status = NANOARROW_OK =>
     \A m \in Columns(Root) : \A p \in Window(Root) :
        /\ nodes[m].kind # "DF" => vec[m][p].t # "U"
        /\ (StructOnly /\ nodes[m].kind # "DF") => RowValue(m, p)

\* ===================================================================== C4
Writer == IF Returning /\ Depth > 1 THEN stack[Depth - 1].node ELSE Top.node

InWindow(w, m, p) == m \in Columns(w) /\ p \in Window(w)

\* A list row reserves a new vector for its element converter: the vector
\* is replaced, not written.
Reserved(m) ==
  /\ Top.pc = "list" /\ Depth' > Depth
  /\ m \in Columns(nodes[Top.node].children[1])

\* C4: every step of a call changes destination vectors only inside the
\* window [dst.offset, dst.offset + dst.length) of the node that writes.
C4_WritesInsideWindow ==
  [][stack # <<>> =>
       \A m \in Ids : \A p \in DOMAIN vec[m] :
          (p \in DOMAIN vec'[m] /\ vec'[m][p] # vec[m][p]) =>
             (InWindow(Writer, m, p) \/ Reserved(m))]_vars

\* ===================================================================== C5
\* C5: the root being called with dst.length = src.length, every node has
\* dst.length = src.length for the whole of each call of
\* nanoarrow_materialize() on it, in particular when the call starts.
C5_EqualLengths ==
  \A d \in 1..Depth :
     conv[stack[d].node].dstLen = conv[stack[d].node].srcLen

C5_Witness ==
  /\ Depth = 3 /\ Top.pc = "base"
  /\ conv[Top.node].dstLen = 1 /\ conv[stack[2].node].dstLen = MaxLen

\* ===================================================================== C6
IsUnion(n) ==
  nodes[n].vt = "DATA_FRAME" /\ nodes[n].st \in {"DENSE_UNION", "SPARSE_UNION"}

InUnionLoop == stack # <<>> /\ Top.pc = "union" /\ Top.i < conv[Top.node].dstLen

\* The child and the element the type and offset buffers give for row i of
\* the slice of union n.
UnionRow(n, i) ==
  LET k == cfg.arrOff + conv[n].srcOff + i
  IN [child |-> nodes[n].children[TypeId(k) + 1],
      element |-> IF nodes[n].st = "DENSE_UNION" THEN DenseOffset(k, 0) ELSE k]

\* The rows of a union are visited one by one in increasing order.
UnionRowOrder ==
  (Returning /\ Depth > 1 /\ stack[Depth - 1].pc = "union") =>
     /\ Depth' = Depth - 1
     /\ stack'[Depth'] = [stack[Depth - 1] EXCEPT !.i = @ + 1]

IsListOf(n) ==
  nodes[n].vt = "LIST_OF" /\ nodes[n].st \in {"LIST", "LARGE_LIST", "FIXED_SIZE_LIST"}

\* The element range of physical list row k, from the offsets buffer or the
\* fixed stride.
ElementRange(n, k) ==
  IF nodes[n].st = "FIXED_SIZE_LIST" THEN [offset |-> k * Stride, length |-> Stride]
  ELSE [offset |-> offsets(k), length |-> offsets(k + 1) - offsets(k)]

NestedLength(val) == IF val.t = "df" THEN val.e[1].k ELSE val.k

\* C7: a null list row leaves its destination slot alone and does not run
\* the element converter; any other row runs it over the element range of
\* row k = array offset + slice offset + i with destination slice
\* (0, length), and the nested value of that length is stored at destination
\* row dst.offset + i, no other row of the list being touched.
C7_ListRows ==
  [][/\ (stack # <<>> /\ Top.pc = "list" /\ Top.i < conv[Top.node].dstLen) =>
          LET n == Top.node
              k == cfg.arrOff + conv[n].srcOff + Top.i
              child == nodes[n].children[1]
              r == ElementRange(n, k)
          IN /\ IsListOf(n)
             /\ IF ~ValidityBit(k)
                THEN /\ stack' = SetTop([Top EXCEPT !.i = @ + 1])
                     /\ vec' = vec /\ conv' = conv
                ELSE /\ stack' = Append(stack, Frame(child))
                     /\ conv'[child] = [conv[child] EXCEPT
                           !.srcOff = r.offset, !.srcLen = r.length,
                           !.dstOff = 0, !.dstLen = r.length]
                     /\ vec'[n] = vec[n]
     /\ (Returning /\ Depth > 1 /\ stack[Depth - 1].pc = "list" /\ cfg.finalizeOk) =>
          LET parent == stack[Depth - 1]
              n == parent.node
              k == cfg.arrOff + conv[n].srcOff + parent.i
              row == conv[n].dstOff + parent.i + 1
          IN /\ vec'[n][row].t \in {"vec", "df"}
             /\ NestedLength(vec'[n][row]) = ElementRange(n, k).length
             /\ \A p \in DOMAIN vec[n] : p # row => vec'[n][p] = vec[n][p]
             /\ stack'[Depth'] = [parent EXCEPT !.i = @ + 1]]_vars

\* Offsets [0,2,2,5]: the rows hold nested values of 2, 0 and 3 elements.
C7_Witness ==
  /\ cfg.tree = "list" /\ cfg.lpat = "ragged" /\ cfg.arrOff = 0 /\ cfg.nulls = "none"
  /\ stack # <<>> /\ Top.node = Root /\ Top.pc = "list" /\ Top.i = 3
  /\ conv[Root].srcOff = 0 /\ conv[Root].dstOff = 0
  /\ vec[Root][1].k = 2 /\ vec[Root][2].k = 0 /\ vec[Root][3].k = 3
  /\ vec[Root][3].e[3] = Val("v", 2, 4, <<>>)

\* ===================================================================== C8
\* The bridge is about to run and the external converter will return a
\* value of the wrong length, kind or shape.
BridgeMismatch ==
  /\ stack # <<>>
  /\ \/ Top.pc = "base" /\ IsOther(Top.node)
     \/ Top.pc = "check" /\ Top.res # NANOARROW_OK
  /\ cfg.fb \in {"len", "kind", "child"}

\* C8 (as stated): the conversion then fails with EINVAL and the bridge
\* leaves every destination vector as it was.
C8_MismatchIsEinvalAndUntouched ==
  [][BridgeMismatch =>
       /\ status' = "EINVAL"
       /\ vec' = vec]_vars

\* C8 (amended): the conversion then ends in a fatal host error raised by
\* copy_vec_into(), never in an EINVAL return.  A scalar destination is left
\* as it was, and so is a record destination when the result is not a
\* record or its row count or column count differs; a column of the wrong
\* kind or length is found only when the copy reaches it, so only the
\* columns before it have been copied (inside the destination window).
C8_MismatchIsFatal ==
  [][BridgeMismatch =>
       LET n == Top.node
           last == n_children(n)
       IN /\ status' = "FATAL" /\ stack' = <<>>
          /\ results' = Append(results, [status |-> "FATAL", value |-> Snapshot(vec', Root)])
          /\ IF nodes[n].kind = "DF" /\ cfg.fb = "child" /\ last > 1
             THEN \A m \in Ids : \A p \in DOMAIN vec[m] :
                    vec'[m][p] # vec[m][p] =>
                      /\ \E j \in 1..(last - 1) : m \in Columns(nodes[n].children[j])
                      /\ p \in Window(n)
                      /\ vec'[m][p].t \in {"x", "NA"}
             ELSE vec' = vec]_vars

\* A record destination whose first column was copied before the second
\* column was found too short.
C8_Witness ==
  /\ status = "FATAL" /\ cfg.fb = "child" /\ cfg.tree = "struct" /\ cfg.flag = "dict"
  /\ vec[2][conv[Root].dstOff + 1].t = "x"
  /\ \A p \in DOMAIN vec[3] : vec[3][p] = U

\* ===================================================================== C9
\* C9: the conversion of chunk 2 on the tree that already converted chunk 1
\* ends with the same status and the same destination as the conversion of
\* chunk 2 on a tree built anew.
C9_ReuseEqualsFresh ==
  Len(results) = 3 => results[2] = results[3]

C9_Witness ==
  /\ Len(results) = 3 /\ results[2].status = NANOARROW_OK
  /\ cfg.tree \in {"dense_rec", "list_rec", "in_struct"}
  /\ chunk.len2 = 2 /\ chunk.off2 = 0 /\ chunk.dstOff2 = 1
  /\ results[1] # results[2]
  /\ \E n \in Ids : conv[n] # NewConv[n] /\ n # Root

\* ==================================================================== C10
AllNullUnion(n) == IsUnion(n) /\ ~IsOther(n) /\ ~nodes[n].dict /\ cfg.nulls = "all"

RECURSIVE EmptyDomainInside(_)
EmptyDomainInside(ptype) ==
  \/ ptype.cls = "factor" /\ ptype.levels = 0
  \/ /\ ptype.cls \in {"data.frame", "vctr"}
     /\ \E j \in 1..Len(ptype.cols) : EmptyDomainInside(ptype.cols[j])

RECURSIVE HasFactor(_)
HasFactor(ptype) ==
  \/ ptype.cls = "factor"
  \/ \E j \in 1..Len(ptype.cols) : HasFactor(ptype.cols[j])

\* Every factor of the shape got a vector of the asked length with its levels.
RECURSIVE CarriesDomains(_, _, _)
CarriesDomains(ptype, value, len) ==
  IF ptype.cls = "factor"
  THEN /\ value.type = "INTSXP" /\ value.len = len
       /\ value.cls = "factor" /\ value.levels = ptype.levels
  ELSE IF ptype.cls \in {"data.frame", "vctr"}
  THEN /\ Len(value.cols) = Len(ptype.cols)
       /\ \A j \in 1..Len(ptype.cols) :
             CarriesDomains(ptype.cols[j], value.cols[j], len)
  ELSE TRUE

\* C11: allocating a factor shape with no levels fails for every length
\* greater than 0; with levels it succeeds for every length, 0 included, and
\* the vector has that length and the levels; the same for a factor that is
\* a column of a record shape, at any depth.
C11_FactorAllocation ==
  (alloc.state = "done" /\ HasFactor(alloc.ptype)) =>
     /\ (EmptyDomainInside(alloc.ptype) /\ alloc.len > 0) => alloc.err
     /\ ~EmptyDomainInside(alloc.ptype) =>
           (~alloc.err /\ CarriesDomains(alloc.ptype, alloc.value, alloc.len))

\* A record whose second column is a factor without levels, asked for one
\* row or more, next to a factor with levels.
C11_Witness ==
  /\ alloc.state = "done" /\ alloc.err /\ alloc.len > 0
  /\ alloc.ptype.cls = "data.frame" /\ Len(alloc.ptype.cols) = 2
  /\ alloc.ptype.cols[1] = Ptype("factor", "INTSXP", MaxLevels, <<>>)
  /\ alloc.ptype.cols[2] = Ptype("factor", "INTSXP", 0, <<>>)

\* ==================================================================== C12
\* The frame at depth k of the stack is inside the loop of a nested
\* materializer.
InLoop(k) == stack[k].pc \in {"struct", "union", "list"}

\* The frame at depth k leaves its loop with a status other than NANOARROW_OK.
LoopFails(k) ==
  /\ InLoop(k) /\ Len(stack') >= k
  /\ stack'[k].pc = "check" /\ stack'[k].res # NANOARROW_OK

\* C12: nanoarrow_materialize() never returns a status other than
\* NANOARROW_OK: a status that is not NANOARROW_OK from the base attempt is
\* answered by the bridge, which returns NANOARROW_OK or raises a fatal
\* error; so a struct or union loop always goes on after a child returns, and
\* a loop fails because of a child only in a list, when the element build
\* (materialize_n or finalize) fails.
C12_NeverReturnsNotOk ==
  [][ /\ status' \in {"idle", "running", NANOARROW_OK, "FATAL"}
      /\ (stack' # <<>> /\ stack'[Len(stack')].pc = "ret") =>
            stack'[Len(stack')].ret = NANOARROW_OK
      /\ (stack # <<>> /\ Top.pc = "check" /\ Top.res # NANOARROW_OK) =>
            \/ status' = "FATAL"
            \/ /\ Len(stack') = Depth
               /\ stack'[Depth].pc = "ret" /\ stack'[Depth].ret = NANOARROW_OK
      /\ (Returning /\ Depth > 1 /\ stack[Depth - 1].pc \in {"struct", "union"}) =>
            stack' = Append(SubSeq(stack, 1, Depth - 2),
                            [stack[Depth - 1] EXCEPT !.i = @ + 1])
      /\ \A k \in 1..Depth :
            LoopFails(k) =>
              /\ stack[k].pc = "list" /\ k = Depth - 1 /\ Returning
              /\ stack'[k].res = "EINVAL"
              /\ ~cfg.finalizeOk
    ]_vars

\* The base attempt of a child of a struct or union failed, the bridge
\* answered, and the child is about to return NANOARROW_OK into the loop.
C12_Witness ==
  /\ Depth > 1 /\ stack[Depth - 1].pc \in {"struct", "union"}
  /\ Top.pc = "ret" /\ Top.res \in {"EINVAL", "ENOTSUP"}
  /\ Top.ret = NANOARROW_OK

====
